---- MODULE Spec2Model ----
(***************************************************************************)
(* A model of AssetModulePlugin (expo/asset-module-webpack-plugin).        *)
(*                                                                         *)
(* Strings are tuples of one-character strings, so that prefix matching,   *)
(* regular-expression escaping and path splitting are computed character   *)
(* by character, the way the JavaScript code computes them.                *)
(***************************************************************************)
EXTENDS Naturals, Sequences, FiniteSets, TLC

VARIABLES
  options,       \* this.options of the plugin instance
  compilations,  \* the compilations (build passes) the host has created
  files,         \* what every file system holds: records [fs, path, content]
  thrown,        \* the exception the last handler invocation let escape
  host,          \* the build the host runs: its passes and its modules
  call           \* one call of a pure helper: its inputs and its result

vars == <<options, compilations, files, thrown, host, call>>

----------------------------------------------------------------------------
(* Bounds of the model.                                                    *)

MaxStrLen == 3     \* longest string handed to _matches
MaxPatLen == 2     \* longest string or regular-expression source pattern
MaxDepth == 3      \* deepest resource path handed to the path remapping
MaxBaseDepth == 2  \* deepest sourceBase / destinationBase
MaxReports == 3    \* succeed-module events of one compilation
MaxPasses == 2     \* compilations of one run in watch mode
MaxNameLen == 2    \* longest public path and longest asset file name

----------------------------------------------------------------------------
(* Strings.                                                                *)

Chars == {"a", "/", "."}

StringsUpTo(n) == UNION {[1..k -> Chars] : k \in 0..n}

IsPrefix(p, s) == Len(p) <= Len(s) /\ SubSeq(s, 1, Len(p)) = p

IsSuffix(p, s) ==
  Len(p) <= Len(s) /\ SubSeq(s, Len(s) - Len(p) + 1, Len(s)) = p

----------------------------------------------------------------------------
(* Patterns: the values of the options test, include and exclude.          *)
(*   kind "undefined": the option is not set                               *)
(*   kind "string":    str is the string                                   *)
(*   kind "regexp":    str is the source of the RegExp (no flags)          *)
(*   kind "regexp/g":  str is the source of a RegExp with the flag g       *)
(*   kind "function":  the pure function  path => path.endsWith(str)       *)
(*   kind "array":     items are the sub-patterns                          *)
(*   kind "number":    str is the decimal numeral of the number            *)

Pat(kind, str) == [kind |-> kind, str |-> str, items |-> <<>>]

Undefined == Pat("undefined", <<>>)

PatArray(items) == [kind |-> "array", str |-> <<>>, items |-> items]

TruthyEveryString(p) ==
  CASE p.kind = "undefined" -> FALSE
    [] p.kind = "number" -> p.str # <<"0">>
    [] OTHER -> TRUE

(* JavaScript truthiness of an option value: `test && ...`.                *)
Truthy(p) ==
  CASE p.kind = "undefined" -> FALSE
    [] p.kind = "string" -> p.str # <<>>
    [] p.kind = "number" -> p.str # <<"0">>
    [] OTHER -> TRUE

(* The outcome of a call: a returned boolean or a thrown Error whose       *)
(* message carries the pattern.                                            *)
Return(v) == [threw |-> FALSE, value |-> v, error |-> Undefined]

Throw(p) == [threw |-> TRUE, value |-> FALSE, error |-> p]

(* What a handler lets escape: nothing, or the Error of _matches.          *)
NoException == [message |-> "none", pattern |-> Undefined]

UnsupportedPattern(p) == [message |-> "Unsupported pattern: ", pattern |-> p]

----------------------------------------------------------------------------
(* Regular expressions: the subset of RegExp the model's inputs use.       *)
(* A source is a leading "^" (anchor), then atoms: "\c" is the character   *)
(* c, "." is any character, every other character is itself.              *)

MetaChars ==
  {"-", "[", "]", "{", "}", "(", ")", "*", "+", "?", ".", "\\", "^", "$", "|"}

(* pattern.replace(/[-[\]{}()*+?.\\^$|]/g, '\\$&')                          *)
RECURSIVE ReplaceMeta(_)
ReplaceMeta(s) ==
  IF s = <<>> THEN <<>>
  ELSE (IF Head(s) \in MetaChars THEN <<"\\", Head(s)>> ELSE <<Head(s)>>)
         \o ReplaceMeta(Tail(s))

EscapedPatternUnanchored(pattern) == ReplaceMeta(pattern)

(* '^' + pattern.replace(...)                                              *)
EscapedPattern(pattern) == <<"^">> \o ReplaceMeta(pattern)

RECURSIVE ParseAtoms(_)
ParseAtoms(src) ==
  IF src = <<>> THEN <<>>
  ELSE IF Head(src) = "\\" /\ Len(src) >= 2
    THEN <<[any |-> FALSE, ch |-> src[2]]>>
           \o ParseAtoms(SubSeq(src, 3, Len(src)))
  ELSE IF Head(src) = "."
    THEN <<[any |-> TRUE, ch |-> "."]>> \o ParseAtoms(Tail(src))
  ELSE <<[any |-> FALSE, ch |-> Head(src)]>> \o ParseAtoms(Tail(src))

NewRegExp(src) ==
  IF src # <<>> /\ Head(src) = "^"
    THEN [anchored |-> TRUE, atoms |-> ParseAtoms(Tail(src))]
    ELSE [anchored |-> FALSE, atoms |-> ParseAtoms(src)]

(* regex.test(string): a match starting anywhere, or at the start when     *)
(* the expression is anchored.                                             *)
RegExpTest(re, s) ==
  \E i \in (IF re.anchored THEN {1} ELSE 1..(Len(s) + 1)) :
    /\ i + Len(re.atoms) - 1 <= Len(s)
    /\ \A k \in 1..Len(re.atoms) :
         re.atoms[k].any \/ re.atoms[k].ch = s[i + k - 1]

----------------------------------------------------------------------------
(* _matches and _shouldEmit.                                               *)

MatchesUnsupportedIsFalse(pattern, string) ==
  IF pattern.kind = "regexp"
    THEN Return(RegExpTest(NewRegExp(pattern.str), string))
  ELSE IF pattern.kind = "string"
    THEN Return(RegExpTest(NewRegExp(EscapedPattern(pattern.str)), string))
  ELSE IF pattern.kind = "function"
    THEN Return(IsSuffix(pattern.str, string))
  ELSE Return(FALSE)

Matches(pattern, string) ==
  IF pattern.kind = "regexp"
    THEN Return(RegExpTest(NewRegExp(pattern.str), string))
  ELSE IF pattern.kind = "string"
    THEN Return(RegExpTest(NewRegExp(EscapedPattern(pattern.str)), string))
  ELSE IF pattern.kind = "function"
    THEN Return(IsSuffix(pattern.str, string))
  ELSE Throw(pattern)

(* src/src/AssetModulePlugin.js (and lib/, and the later builds).          *)
ShouldEmit(opts, resource) ==
  LET t == Matches(opts.test, resource)
      i == Matches(opts.include, resource)
      e == Matches(opts.exclude, resource)
  IN  IF Truthy(opts.test) /\ t.threw THEN t
      ELSE IF Truthy(opts.test) /\ ~t.value THEN Return(FALSE)
      ELSE IF Truthy(opts.include) /\ i.threw THEN i
      ELSE IF Truthy(opts.include) /\ ~i.value THEN Return(FALSE)
      ELSE IF Truthy(opts.exclude) /\ e.threw THEN e
      ELSE IF Truthy(opts.exclude) /\ e.value THEN Return(FALSE)
      ELSE Return(TRUE)

(* pattern.test(string) on a RegExp with the flag g, whose lastIndex is    *)
(* the given one: the search starts at lastIndex; a match sets lastIndex   *)
(* to its end, no match sets it to 0.  Indices of the model are 1-based.   *)
RegExpTestGlobal(re, s, lastIndex) ==
  LET starts ==
        {i \in (IF re.anchored THEN {1} ELSE 1..(Len(s) + 1)) :
           /\ i >= lastIndex + 1
           /\ i + Len(re.atoms) - 1 <= Len(s)
           /\ \A k \in 1..Len(re.atoms) :
                re.atoms[k].any \/ re.atoms[k].ch = s[i + k - 1]}
  IN  IF starts = {} THEN [value |-> FALSE, lastIndex |-> 0]
      ELSE LET first == CHOOSE i \in starts : \A j \in starts : i <= j
           IN  [value |-> TRUE, lastIndex |-> first - 1 + Len(re.atoms)]

(* _matches on a pattern object in a given state: the outcome and the      *)
(* lastIndex the pattern object is left with.                              *)
MatchesAt(pattern, string, lastIndex) ==
  IF pattern.kind = "regexp/g"
    THEN LET r == RegExpTestGlobal(NewRegExp(pattern.str), string, lastIndex)
         IN  [outcome |-> Return(r.value), lastIndex |-> r.lastIndex]
    ELSE [outcome |-> Matches(pattern, string), lastIndex |-> lastIndex]

(* _shouldEmit with the pattern objects in a given state: li holds the     *)
(* lastIndex of the objects of test, include and exclude.  A pattern is    *)
(* only evaluated when the ones before it have let the resource pass.      *)
ShouldEmitAt(opts, resource, li) ==
  LET t == MatchesAt(opts.test, resource, li.test)
      li1 == IF Truthy(opts.test) THEN [li EXCEPT !.test = t.lastIndex]
                                  ELSE li
      i == MatchesAt(opts.include, resource, li1.include)
      li2 == IF Truthy(opts.include)
               THEN [li1 EXCEPT !.include = i.lastIndex] ELSE li1
      e == MatchesAt(opts.exclude, resource, li2.exclude)
      li3 == IF Truthy(opts.exclude)
               THEN [li2 EXCEPT !.exclude = e.lastIndex] ELSE li2
  IN  IF Truthy(opts.test) /\ t.outcome.threw
        THEN [outcome |-> t.outcome, lastIndex |-> li1]
      ELSE IF Truthy(opts.test) /\ ~t.outcome.value
        THEN [outcome |-> Return(FALSE), lastIndex |-> li1]
      ELSE IF Truthy(opts.include) /\ i.outcome.threw
        THEN [outcome |-> i.outcome, lastIndex |-> li2]
      ELSE IF Truthy(opts.include) /\ ~i.outcome.value
        THEN [outcome |-> Return(FALSE), lastIndex |-> li2]
      ELSE IF Truthy(opts.exclude) /\ e.outcome.threw
        THEN [outcome |-> e.outcome, lastIndex |-> li3]
      ELSE IF Truthy(opts.exclude) /\ e.outcome.value
        THEN [outcome |-> Return(FALSE), lastIndex |-> li3]
      ELSE [outcome |-> Return(TRUE), lastIndex |-> li3]

(* src/AssetModulePlugin.js, the first version: the exclude test is        *)
(* negated like the other two.                                             *)
ShouldEmitFirstVersion(opts, resource) ==
  LET t == Matches(opts.test, resource)
      i == Matches(opts.include, resource)
      e == Matches(opts.exclude, resource)
  IN  IF Truthy(opts.test) /\ t.threw THEN t
      ELSE IF Truthy(opts.test) /\ ~t.value THEN Return(FALSE)
      ELSE IF Truthy(opts.include) /\ i.threw THEN i
      ELSE IF Truthy(opts.include) /\ ~i.value THEN Return(FALSE)
      ELSE IF Truthy(opts.exclude) /\ e.threw THEN e
      ELSE IF Truthy(opts.exclude) /\ ~e.value THEN Return(FALSE)
      ELSE Return(TRUE)

----------------------------------------------------------------------------
(* Paths: POSIX path.resolve, path.relative and path.dirname of Node.      *)

Cwd == <<"/", "x">>   \* process.cwd()

Up == <<".", ".">>    \* the segment ".."

IsAbsolute(p) == p # <<>> /\ p[1] = "/"

(* The segments of a path: the non-empty pieces between slashes.  seg is   *)
(* the piece read so far, i the position of the next character.           *)
RECURSIVE SplitFrom(_, _, _)
SplitFrom(s, i, seg) ==
  IF i > Len(s) THEN (IF seg = <<>> THEN <<>> ELSE <<seg>>)
  ELSE IF s[i] = "/"
    THEN (IF seg = <<>> THEN <<>> ELSE <<seg>>) \o SplitFrom(s, i + 1, <<>>)
  ELSE SplitFrom(s, i + 1, Append(seg, s[i]))

Split(s) == SplitFrom(s, 1, <<>>)

RECURSIVE Join(_)
Join(segs) ==
  IF segs = <<>> THEN <<>>
  ELSE IF Len(segs) = 1 THEN segs[1]
  ELSE segs[1] \o <<"/">> \o Join(Tail(segs))

(* normalizeString of Node with allowAboveRoot = FALSE: "." is dropped,    *)
(* ".." removes the segment before it and is dropped at the root.          *)
RECURSIVE NormalizeSegs(_, _)
NormalizeSegs(segs, acc) ==
  IF segs = <<>> THEN acc
  ELSE IF Head(segs) = <<".">> THEN NormalizeSegs(Tail(segs), acc)
  ELSE IF Head(segs) = Up
    THEN NormalizeSegs(Tail(segs),
                       IF acc = <<>> THEN acc
                       ELSE SubSeq(acc, 1, Len(acc) - 1))
  ELSE NormalizeSegs(Tail(segs), Append(acc, Head(segs)))

(* path.resolve(a, b): the absolute, normalized path of b taken from a,    *)
(* itself taken from the working directory.                                *)
PathResolve(a, b) ==
  LET full == IF IsAbsolute(b) THEN b
              ELSE IF IsAbsolute(a) THEN a \o <<"/">> \o b
              ELSE Cwd \o <<"/">> \o a \o <<"/">> \o b
  IN  <<"/">> \o Join(NormalizeSegs(Split(full), <<>>))

CommonLen(f, t) ==
  CHOOSE c \in 0..Len(f) :
    /\ c <= Len(t)
    /\ \A k \in 1..c : f[k] = t[k]
    /\ c = Len(f) \/ c = Len(t) \/ f[c + 1] # t[c + 1]

(* path.relative(from, to): one ".." for every segment of from below the   *)
(* common directory, then the segments of to below it.                     *)
PathRelative(from, to) ==
  LET f == Split(PathResolve(from, <<>>))
      t == Split(PathResolve(to, <<>>))
      c == CommonLen(f, t)
  IN  Join([k \in 1..(Len(f) - c) |-> Up] \o SubSeq(t, c + 1, Len(t)))

(* path.dirname of an absolute, normalized path.                           *)
PathDirname(p) ==
  LET segs == Split(p)
  IN  <<"/">> \o Join(SubSeq(segs, 1, Len(segs) - 1))

DestinationPathJoined(opts, resource) ==
  opts.destinationBase \o <<"/">> \o PathRelative(opts.sourceBase, resource)

(* path.resolve(destinationBase, path.relative(sourceBase, resource))      *)
DestinationPath(opts, resource) ==
  PathResolve(opts.destinationBase, PathRelative(opts.sourceBase, resource))

----------------------------------------------------------------------------
(* Inputs of the pure helpers.                                             *)

StrA == <<"a">>
StrSlash == <<"/">>

StringPatterns == {Pat("string", s) : s \in StringsUpTo(MaxPatLen)}

RegExpPatterns ==
  {Pat("regexp", s) :
     s \in {<<"a">>, <<"^", "a">>, <<"\\", ".">>, <<".">>, <<"/", "a">>}}

FunctionPatterns == {Pat("function", s) : s \in StringsUpTo(1)}

ArrayPatterns ==
  { PatArray(<<>>),
    PatArray(<<Pat("string", StrA)>>),
    PatArray(<<Pat("string", StrA), Pat("string", StrSlash)>>),
    PatArray(<<Pat("regexp", <<"\\", ".">>), Pat("function", StrA)>>) }

NumberPatterns == {Pat("number", <<"5">>), Pat("number", <<"0">>)}

Patterns ==
  StringPatterns \cup RegExpPatterns \cup FunctionPatterns
    \cup ArrayPatterns \cup NumberPatterns \cup {Undefined}

OptionPatterns ==
  { Undefined,
    Pat("string", <<>>),
    Pat("string", StrSlash),
    Pat("regexp", <<"\\", ".">>),
    Pat("function", StrA),
    PatArray(<<Pat("string", StrA), Pat("string", StrSlash)>>),
    Pat("number", <<"5">>) }

SegNames == {"s", "b", "x"}

(* The absolute paths of at most n segments.                               *)
AbsPaths(n) ==
  {<<"/">> \o Join([k \in 1..Len(f) |-> <<f[k]>>]) :
     f \in UNION {[1..d -> SegNames] : d \in 0..n}}

(* sourceBase and destinationBase: absolute, or relative to Cwd.           *)
BasePaths ==
  AbsPaths(MaxBaseDepth)
    \cup {<<"s">>, <<"b">>, <<"s", "/", "x">>, <<"b", "/", "x">>}

NoOptions ==
  [sourceBase |-> <<"/">>, destinationBase |-> <<"/">>,
   test |-> Undefined, include |-> Undefined, exclude |-> Undefined,
   fileSystems |-> <<>>, hasFileSystems |-> FALSE]

FilterOptions(t, i, e) ==
  [NoOptions EXCEPT !.test = t, !.include = i, !.exclude = e]

BaseOptions(sb, db) ==
  [NoOptions EXCEPT !.sourceBase = sb, !.destinationBase = db]

----------------------------------------------------------------------------
(* The build: modules, file systems, and the values the plugin records.    *)

OutputFileSystem == "compiler.outputFileSystem"

MemoryFileSystem == "memoryFileSystem"   \* a file system the user passes

DefaultFileSystem == "Symbol(DefaultFileSystem)"

FileSystems == {OutputFileSystem, MemoryFileSystem}

ResA == <<"/", "s", "/", "a">>

ResC == <<"/", "s", "/", "c">>

ResX == <<"/", "x", "/", "a">>

Resources == {ResA, ResC, ResX}

(* module.assets: an object keyed by the file names the loaders emitted,   *)
(* modelled by its keys in the order they were inserted.                   *)
AssetOne == <<"h", ".", "a">>

AssetTwo == <<"\"", "\\">>

AssetIndex == <<"7">>   \* a file name that is a canonical array index

Module(resource, assets) == [resource |-> resource, assets |-> assets]

Modules ==
  { Module(ResA, <<>>),
    Module(ResA, <<AssetOne, AssetTwo>>),
    Module(ResC, <<AssetTwo, AssetIndex>>),
    Module(ResX, <<AssetOne>>) }

(* compilation.mainTemplate.getPublicPath({hash}): chosen by the host.     *)
PublicPath == <<"/", "p", "/">>

NoError == [op |-> "none", fs |-> "none", path |-> <<>>]

IOError(op, fs, path) == [op |-> op, fs |-> fs, path |-> path]

Warning(kind, resource) == [kind |-> kind, resource |-> resource]

SourceContent == <<"asset">>   \* what a source asset holds before the build

----------------------------------------------------------------------------
(* _getAssetModuleSource, _getMakeDirectoriesFunction, _emitAssetModule.   *)

RECURSIVE JsonEscapeQuoteOnly(_)
JsonEscapeQuoteOnly(s) ==
  IF s = <<>> THEN <<>>
  ELSE (IF Head(s) = "\"" THEN <<"\\", "\"">> ELSE <<Head(s)>>)
         \o JsonEscapeQuoteOnly(Tail(s))

(* JSON.stringify of a string: quoted, with quote and backslash escaped    *)
(* and a control character written as its escape (the line feed stands     *)
(* for the control characters).                                            *)
RECURSIVE JsonEscape(_)
JsonEscape(s) ==
  IF s = <<>> THEN <<>>
  ELSE (IF Head(s) \in {"\"", "\\"} THEN <<"\\", Head(s)>>
        ELSE IF Head(s) = "\n" THEN <<"\\", "n">>
        ELSE <<Head(s)>>)
         \o JsonEscape(Tail(s))

JsonStringify(s) == <<"\"">> \o JsonEscape(s) \o <<"\"">>

Digits == {"0", "1", "2", "3", "4", "5", "6", "7", "8", "9"}

DigitValue(d) == CHOOSE v \in 0..9 : ToString(v) = d

(* a < b for two decimal numerals without leading zeros: the shorter one,  *)
(* or of two of one length the one with the smaller digit where they       *)
(* first differ.                                                           *)
NumeralLess(a, b) ==
  \/ Len(a) < Len(b)
  \/ /\ Len(a) = Len(b)
     /\ \E k \in 1..Len(a) :
          /\ \A j \in 1..(k - 1) : a[j] = b[j]
          /\ DigitValue(a[k]) < DigitValue(b[k])

MaxArrayIndex == <<"4", "2", "9", "4", "9", "6", "7", "2", "9", "4">>

(* A property key that is a canonical array index: the decimal numeral of  *)
(* an integer up to 2^32 - 2, without a leading zero.                      *)
IsArrayIndex(name) ==
  /\ name # <<>>
  /\ \A k \in 1..Len(name) : name[k] \in Digits
  /\ Len(name) = 1 \/ name[1] # "0"
  /\ name = MaxArrayIndex \/ NumeralLess(name, MaxArrayIndex)

IsNotArrayIndex(name) == ~IsArrayIndex(name)

(* Object.keys(assets): the array-index keys in ascending numeric order,   *)
(* then the other keys in insertion order.                                 *)
ObjectKeys(assets) ==
  SortSeq(SelectSeq(assets, IsArrayIndex), NumeralLess)
    \o SelectSeq(assets, IsNotArrayIndex)

AssetFilename(opts, module) ==
  LET assetFilenames == ObjectKeys(module.assets)
  IN  IF Len(assetFilenames) = 0
        THEN PathRelative(opts.sourceBase, module.resource)
        ELSE assetFilenames[1]

(* `module.exports = ${JSON.stringify(fullAssetPath)};\n`                  *)
AssetModuleSource(publicPath, assetFilename) ==
  <<"module.exports = ">> \o JsonStringify(publicPath \o assetFilename)
    \o <<";", "\n">>

GetAssetModuleSource(opts, module) ==
  [warnings |-> IF Len(module.assets) > 1
                  THEN <<Warning("assets", module.resource)>>
                  ELSE <<>>,
   source |-> AssetModuleSource(PublicPath, AssetFilename(opts, module))]

(* The output file system has mkdirp, a user's file system need not: the   *)
(* mkdirp package is then used on it.                                      *)
GetMakeDirectoriesFunction(fileSystem) ==
  IF fileSystem = OutputFileSystem THEN "fileSystem.mkdirp" ELSE "mkdirp"

WriteFileWithoutDirectories(m, slot, fileSystem, filename, content) ==
  [module |-> m, slot |-> slot, fs |-> fileSystem,
   filename |-> filename, dir |-> PathDirname(filename),
   content |-> content,
   makeDirectories |-> GetMakeDirectoriesFunction(fileSystem),
   state |-> "writeFile", error |-> NoError]

(* _writeFile: the promise of one write, created with makeDirectories      *)
(* called and its callback pending.                                        *)
WriteFile(m, slot, fileSystem, filename, content) ==
  [module |-> m, slot |-> slot, fs |-> fileSystem,
   filename |-> filename, dir |-> PathDirname(filename),
   content |-> content,
   makeDirectories |-> GetMakeDirectoriesFunction(fileSystem),
   state |-> "mkdir", error |-> NoError]

TargetFileSystemsKeepingSentinel(opts) ==
  IF ~opts.hasFileSystems THEN <<OutputFileSystem>> ELSE opts.fileSystems

(* The file systems one module is written to.                              *)
TargetFileSystems(opts) ==
  IF ~opts.hasFileSystems THEN <<OutputFileSystem>>
  ELSE [k \in 1..Len(opts.fileSystems) |->
          IF opts.fileSystems[k] = DefaultFileSystem
            THEN OutputFileSystem
            ELSE opts.fileSystems[k]]

EmitAssetModuleNoGuard(opts, m, module) ==
  LET destinationPath == DestinationPath(opts, module.resource)
      src == GetAssetModuleSource(opts, module)
      targets == TargetFileSystems(opts)
  IN  [warnings |-> src.warnings,
       writes |-> [k \in 1..Len(targets) |->
                     WriteFile(m, k, targets[k], destinationPath,
                               src.source)]]

(* _emitAssetModule for the m-th module to emit: the warnings it pushes    *)
(* and the writes it starts.                                               *)
EmitAssetModule(opts, m, module) ==
  LET destinationPath == DestinationPath(opts, module.resource)
      src == GetAssetModuleSource(opts, module)
      targets == TargetFileSystems(opts)
  IN  IF module.resource = destinationPath
        THEN [warnings |-> <<Warning("destination", module.resource)>>,
              writes |-> <<>>]
        ELSE [warnings |-> src.warnings,
              writes |-> [k \in 1..Len(targets) |->
                            WriteFile(m, k, targets[k], destinationPath,
                                      src.source)]]

(* compilation._modulesToEmit.map(module => this._emitAssetModule(...))    *)
RECURSIVE EmitAll(_, _, _, _)
EmitAll(opts, mods, m, acc) ==
  IF m > Len(mods) THEN acc
  ELSE LET e == EmitAssetModule(opts, m, mods[m])
       IN  EmitAll(opts, mods, m + 1,
                   [warnings |-> acc.warnings \o e.warnings,
                    writes |-> acc.writes \o e.writes])

----------------------------------------------------------------------------
(* The pure helpers, each applied once to inputs drawn in the initial      *)
(* state.  impl names the file whose _shouldEmit is called.                *)

Impls == {"src/src/AssetModulePlugin.js", "src/AssetModulePlugin.js"}

MatchesCalls ==
  [fn : {"_matches"}, pattern : Patterns, string : StringsUpTo(MaxStrLen),
   done : {FALSE}, result : {Return(FALSE)}]

ShouldEmitCalls ==
  [fn : {"_shouldEmit"}, impl : Impls,
   opts : {FilterOptions(t, i, e) :
             t \in OptionPatterns, i \in OptionPatterns, e \in OptionPatterns},
   string : StringsUpTo(MaxStrLen),
   done : {FALSE}, result : {Return(FALSE)}]

DestinationCalls ==
  [fn : {"destinationPath"},
   opts : {BaseOptions(sb, db) : sb \in BasePaths, db \in BasePaths},
   resource : AbsPaths(MaxDepth),
   done : {FALSE}, result : {<<>>}]

(* The characters of public paths and asset file names: a letter, the     *)
(* letter of the line-feed escape, the quote, the backslash, a line feed.  *)
JsonChars == {"a", "n", "\"", "\\", "\n"}

JsonStrings(n) == UNION {[1..k -> JsonChars] : k \in 0..n}

SourceCalls ==
  [fn : {"_getAssetModuleSource"},
   opts : {BaseOptions(<<"/", "s">>, <<"/", "b">>)},
   publicPath : JsonStrings(MaxNameLen),
   module : {Module(<<"/", "s", "/", "a">>, <<>>)}
              \cup {Module(<<"/", "s", "/", "a">>, <<name>>) :
                      name \in JsonStrings(MaxNameLen)},
   done : {FALSE}, result : {<<>>}]

(* Two consecutive calls of _shouldEmit with one module and one options    *)
(* object, whose RegExp objects are new (lastIndex 0) before the first.    *)
StatefulPatterns ==
  { Undefined, Pat("string", StrA), Pat("function", StrA),
    Pat("regexp", StrA), Pat("regexp/g", StrA),
    Pat("regexp/g", <<"^", "a">>) }

RepeatedCalls ==
  [fn : {"_shouldEmit, twice"},
   opts : {FilterOptions(t, i, e) :
             t \in StatefulPatterns, i \in StatefulPatterns,
             e \in StatefulPatterns},
   string : StringsUpTo(MaxStrLen),
   lastIndex : {[test |-> 0, include |-> 0, exclude |-> 0]},
   done : {FALSE}, results : {<<>>}]

NoCall == [fn |-> "none"]

PureInit ==
  /\ options = NoOptions
  /\ compilations = <<>>
  /\ files = {}
  /\ thrown = NoException
  /\ host = [passes |-> 0, modules |-> {}]
  /\ \/ call \in MatchesCalls
     \/ call \in ShouldEmitCalls
     \/ call \in DestinationCalls
     \/ call \in SourceCalls
     \/ call \in RepeatedCalls

CallMatches ==
  /\ call.fn = "_matches" /\ ~call.done
  /\ call' = [call EXCEPT !.done = TRUE,
                          !.result = Matches(call.pattern, call.string)]
  /\ UNCHANGED <<options, compilations, files, thrown, host>>

CallShouldEmit ==
  /\ call.fn = "_shouldEmit" /\ ~call.done
  /\ call' = [call EXCEPT
       !.done = TRUE,
       !.result = IF call.impl = "src/AssetModulePlugin.js"
                    THEN ShouldEmitFirstVersion(call.opts, call.string)
                    ELSE ShouldEmit(call.opts, call.string)]
  /\ UNCHANGED <<options, compilations, files, thrown, host>>

CallDestinationPath ==
  /\ call.fn = "destinationPath" /\ ~call.done
  /\ call' = [call EXCEPT
       !.done = TRUE,
       !.result = DestinationPath(call.opts, call.resource)]
  /\ UNCHANGED <<options, compilations, files, thrown, host>>

(* _getAssetModuleSource with the public path the compilation returns.    *)
CallGetAssetModuleSource ==
  /\ call.fn = "_getAssetModuleSource" /\ ~call.done
  /\ call' = [call EXCEPT
       !.done = TRUE,
       !.result = AssetModuleSource(call.publicPath,
                                    AssetFilename(call.opts, call.module))]
  /\ UNCHANGED <<options, compilations, files, thrown, host>>

(* One of the two calls of _shouldEmit on the same objects.                *)
CallShouldEmitAgain ==
  /\ call.fn = "_shouldEmit, twice" /\ Len(call.results) < 2
  /\ LET r == ShouldEmitAt(call.opts, call.string, call.lastIndex)
     IN  call' = [call EXCEPT !.results = Append(@, r.outcome),
                              !.lastIndex = r.lastIndex,
                              !.done = Len(call.results) = 1]
  /\ UNCHANGED <<options, compilations, files, thrown, host>>

PureNext ==
  \/ CallMatches
  \/ CallShouldEmit
  \/ CallDestinationPath
  \/ CallGetAssetModuleSource
  \/ CallShouldEmitAgain

SpecPure == PureInit /\ [][PureNext]_vars

----------------------------------------------------------------------------
(* The configurations the build is run under.                              *)

StrS == <<"/", "s">>
StrB == <<"/", "b">>
StrX == <<"/", "x">>

NoFilter == [test |-> Undefined, include |-> Undefined, exclude |-> Undefined]

Filters ==
  { NoFilter,
    [test |-> Undefined, include |-> Undefined,
     exclude |-> Pat("string", StrX)],
    [test |-> Pat("regexp", <<"^", "\\", "/", "s">>),
     include |-> Pat("number", <<"5">>), exclude |-> Undefined] }

FileSystemLists ==
  { <<DefaultFileSystem, MemoryFileSystem>>,
    <<MemoryFileSystem, MemoryFileSystem>> }

(* Without fileSystems under every filter, with fileSystems unfiltered.    *)
Configs ==
  {[sourceBase |-> StrS, destinationBase |-> StrB,
    test |-> f.test, include |-> f.include, exclude |-> f.exclude,
    fileSystems |-> <<>>, hasFileSystems |-> FALSE] : f \in Filters}
  \cup
  {[sourceBase |-> StrS, destinationBase |-> StrB,
    test |-> f.test, include |-> f.include, exclude |-> f.exclude,
    fileSystems |-> l, hasFileSystems |-> TRUE] :
     f \in {NoFilter}, l \in FileSystemLists}

----------------------------------------------------------------------------
(* The plugin's handlers.                                                  *)

NewCompilationRecordSharingSet ==
  [addedResources |->
     IF compilations = <<>> THEN {}
     ELSE compilations[Len(compilations)].addedResources,
   modulesToEmit |-> <<>>, reports |-> <<>>,
   warnings |-> <<>>, errors |-> <<>>,
   afterEmit |-> FALSE, writes |-> <<>>, callbacks |-> <<>>]

NewCompilationRecord ==
  [addedResources |-> {}, modulesToEmit |-> <<>>, reports |-> <<>>,
   warnings |-> <<>>, errors |-> <<>>,
   afterEmit |-> FALSE, writes |-> <<>>, callbacks |-> <<>>]

Init ==
  /\ options \in Configs
  /\ compilations = <<>>
  /\ files = {[fs |-> OutputFileSystem, path |-> r, content |-> SourceContent] :
                r \in Resources}
  /\ thrown = NoException
  /\ host = [passes |-> 1, modules |-> Modules]
  /\ call = NoCall

Current == Len(compilations)

(* compiler.plugin('compilation', ...): a new pass, with a new set and a   *)
(* new list.                                                               *)
Compilation ==
  /\ Len(compilations) < host.passes
  /\ Len(compilations) > 0 =>
       compilations[Current].callbacks # <<>>
  /\ compilations' = Append(compilations, NewCompilationRecord)
  /\ thrown' = NoException
  /\ UNCHANGED <<options, files, host, call>>

AlreadyAddedSameModule(c, module) ==
  \E i \in 1..Len(c.modulesToEmit) : c.modulesToEmit[i] = module

(* addedResources.has(resource)                                            *)
AlreadyAdded(c, module) == module.resource \in c.addedResources

(* compilation.plugin('succeed-module', ...)                               *)
SucceedModule(module) ==
  /\ module \in host.modules
  /\ Len(compilations) > 0
  /\ ~compilations[Current].afterEmit
  /\ Len(compilations[Current].reports) < MaxReports
  /\ LET c == compilations[Current]
         reported == [c EXCEPT !.reports = Append(@, module)]
         should == ShouldEmit(options, module.resource)
     IN  IF AlreadyAdded(c, module)
           THEN /\ compilations' = [compilations EXCEPT ![Current] = reported]
                /\ thrown' = NoException
         ELSE IF should.threw
           THEN /\ compilations' = [compilations EXCEPT ![Current] = reported]
                /\ thrown' = UnsupportedPattern(should.error)
         ELSE IF ~should.value
           THEN /\ compilations' = [compilations EXCEPT ![Current] = reported]
                /\ thrown' = NoException
         ELSE /\ compilations' =
                   [compilations EXCEPT ![Current] =
                      [reported EXCEPT
                         !.addedResources = @ \cup {module.resource},
                         !.modulesToEmit = Append(@, module)]]
              /\ thrown' = NoException
  /\ UNCHANGED <<options, files, host, call>>

SettledWhenAllSettled(callbacks, writes, error) ==
  IF callbacks # <<>> THEN callbacks
  ELSE IF \A k \in 1..Len(writes) : writes[k].state \in {"resolved", "rejected"}
    THEN <<[error |-> NoError]>>
  ELSE <<>>

SettledNeverAtOnce(callbacks, writes, error) ==
  IF callbacks # <<>> \/ writes = <<>> THEN callbacks
  ELSE IF error # NoError THEN <<[error |-> error]>>
  ELSE IF \A k \in 1..Len(writes) : writes[k].state = "resolved"
    THEN <<[error |-> NoError]>>
  ELSE <<>>

(* What Promise.all(...).then(...) does once a write has settled, or at    *)
(* once when there is nothing to wait for: callback(null, result) when     *)
(* every promise is resolved, callback(error) at the first rejection.      *)
Settled(callbacks, writes, error) ==
  IF callbacks # <<>> THEN callbacks
  ELSE IF error # NoError THEN <<[error |-> error]>>
  ELSE IF \A k \in 1..Len(writes) : writes[k].state = "resolved"
    THEN <<[error |-> NoError]>>
  ELSE <<>>

(* compiler.plugin('after-emit', ...)                                      *)
AfterEmit(p) ==
  /\ p \in 1..Len(compilations)
  /\ ~compilations[p].afterEmit
  /\ LET c == compilations[p]
         e == EmitAll(options, c.modulesToEmit, 1,
                      [warnings |-> <<>>, writes |-> <<>>])
     IN  compilations' =
           [compilations EXCEPT ![p] =
              [c EXCEPT !.afterEmit = TRUE,
                        !.warnings = @ \o e.warnings,
                        !.writes = e.writes,
                        !.callbacks = Settled(@, e.writes, NoError)]]
  /\ thrown' = NoException
  /\ UNCHANGED <<options, files, host, call>>

RejectCancellingTheRest(c, k, error) ==
  [c EXCEPT
     !.writes = [j \in 1..Len(c.writes) |->
                   IF j = k \/ c.writes[j].state \in {"mkdir", "writeFile"}
                     THEN [c.writes[j] EXCEPT !.state = "rejected",
                                              !.error = error]
                     ELSE c.writes[j]],
     !.errors = IF options.hasFileSystems THEN Append(@, error) ELSE @,
     !.callbacks = IF @ # <<>> THEN @ ELSE <<[error |-> error]>>]

(* The rejection of one write: with fileSystems set, the catch handler     *)
(* pushes the error and throws it again.                                   *)
Reject(c, k, error) ==
  LET failed == [c EXCEPT !.writes[k].state = "rejected",
                          !.writes[k].error = error]
      recorded == IF options.hasFileSystems
                    THEN [failed EXCEPT !.errors = Append(@, error)]
                    ELSE failed
  IN  [recorded EXCEPT !.callbacks = Settled(@, failed.writes, error)]

(* The callback of makeDirectories(path.dirname(filename), ...)            *)
MakeDirectoriesCallback(p, k, ok) ==
  /\ p \in 1..Len(compilations)
  /\ k \in 1..Len(compilations[p].writes)
  /\ compilations[p].writes[k].state = "mkdir"
  /\ LET c == compilations[p]
         w == c.writes[k]
     IN  compilations' =
           [compilations EXCEPT ![p] =
              IF ok THEN [c EXCEPT !.writes[k].state = "writeFile"]
              ELSE Reject(c, k, IOError("mkdir", w.fs, w.dir))]
  /\ UNCHANGED <<options, files, thrown, host, call>>

(* The callback of fileSystem.writeFile(filename, content, ...)            *)
WriteFileCallback(p, k, ok) ==
  /\ p \in 1..Len(compilations)
  /\ k \in 1..Len(compilations[p].writes)
  /\ compilations[p].writes[k].state = "writeFile"
  /\ LET c == compilations[p]
         w == c.writes[k]
         resolved == [c EXCEPT !.writes[k].state = "resolved"]
     IN  IF ok
           THEN /\ compilations' =
                     [compilations EXCEPT ![p] =
                        [resolved EXCEPT
                           !.callbacks = Settled(@, resolved.writes, NoError)]]
                /\ files' =
                     {f \in files : ~(f.fs = w.fs /\ f.path = w.filename)}
                       \cup {[fs |-> w.fs, path |-> w.filename,
                              content |-> w.content]}
           ELSE /\ compilations' =
                     [compilations EXCEPT ![p] =
                        Reject(c, k, IOError("writeFile", w.fs, w.filename))]
                /\ UNCHANGED files
  /\ UNCHANGED <<options, thrown, host, call>>

Next ==
  \/ Compilation
  \/ \E module \in Modules : SucceedModule(module)
  \/ \E p \in 1..Len(compilations) : AfterEmit(p)
  \/ \E p \in 1..Len(compilations) :
       \E k \in 1..Len(compilations[p].writes), ok \in BOOLEAN :
         MakeDirectoriesCallback(p, k, ok)
  \/ \E p \in 1..Len(compilations) :
       \E k \in 1..Len(compilations[p].writes), ok \in BOOLEAN :
         WriteFileCallback(p, k, ok)

(* One build pass (webpack's run).                                         *)
Spec == Init /\ [][Next]_vars

(* Watch mode: the host starts a new pass once the previous one has        *)
(* called back, while writes of the previous pass may still be pending.    *)
WatchInit ==
  /\ options \in {o \in Configs :
                    /\ o.hasFileSystems
                    /\ o.fileSystems = <<DefaultFileSystem, MemoryFileSystem>>}
  /\ compilations = <<>>
  /\ files = {[fs |-> OutputFileSystem, path |-> r, content |-> SourceContent] :
                r \in Resources}
  /\ thrown = NoException
  /\ host = [passes |-> MaxPasses, modules |-> {Module(ResA, <<>>)}]
  /\ call = NoCall

SpecWatch == WatchInit /\ [][Next]_vars

----------------------------------------------------------------------------
(* A file system need not answer: _writeFile sets no timeout, so an        *)
(* operation whose callback is never called leaves its promise pending.    *)
(* Stall marks a pending operation as one that will never call back.       *)

Stalled(w) == w.state \in {"mkdir never calls back", "writeFile never calls back"}

Stall(p, k) ==
  /\ p \in 1..Len(compilations)
  /\ k \in 1..Len(compilations[p].writes)
  /\ compilations[p].writes[k].state \in {"mkdir", "writeFile"}
  /\ compilations' =
       [compilations EXCEPT ![p].writes[k].state =
          IF @ = "mkdir" THEN "mkdir never calls back"
                         ELSE "writeFile never calls back"]
  /\ UNCHANGED <<options, files, thrown, host, call>>

NextStall ==
  \/ Next
  \/ \E p \in 1..Len(compilations) :
       \E k \in 1..Len(compilations[p].writes) : Stall(p, k)

SpecStall == Init /\ [][NextStall]_vars

----------------------------------------------------------------------------
(* lib/AssetModulePlugin.js, the built file: it has no after-emit handler  *)
(* and no list of modules to emit.  Its succeed-module handler calls       *)
(* _emitAssetModule itself, which writes the source of the module, and it  *)
(* drops the promise.  modulesToEmit holds here the modules handed to      *)
(* _emitAssetModule, in order.                                             *)

(* module._source.source()                                                 *)
ModuleSource(module) == <<"source of ">> \o module.resource

(* _emitAssetModule of lib/AssetModulePlugin.js                            *)
EmitAssetModuleLib(opts, m, module) ==
  LET destinationPath == DestinationPath(opts, module.resource)
      targets == TargetFileSystems(opts)
  IN  IF module.resource = destinationPath
        THEN [warnings |-> <<Warning("destination", module.resource)>>,
              writes |-> <<>>]
        ELSE [warnings |-> <<>>,
              writes |-> [k \in 1..Len(targets) |->
                            WriteFile(m, k, targets[k], destinationPath,
                                      ModuleSource(module))]]

(* compilation.plugin('succeed-module', ...) of lib/AssetModulePlugin.js   *)
SucceedModuleLib(module) ==
  /\ module \in host.modules
  /\ Len(compilations) > 0
  /\ Len(compilations[Current].reports) < MaxReports
  /\ LET c == compilations[Current]
         reported == [c EXCEPT !.reports = Append(@, module)]
         should == ShouldEmit(options, module.resource)
         e == EmitAssetModuleLib(options, Len(c.modulesToEmit) + 1, module)
     IN  IF module.resource \in c.addedResources
           THEN /\ compilations' = [compilations EXCEPT ![Current] = reported]
                /\ thrown' = NoException
         ELSE IF should.threw
           THEN /\ compilations' = [compilations EXCEPT ![Current] = reported]
                /\ thrown' = UnsupportedPattern(should.error)
         ELSE IF ~should.value
           THEN /\ compilations' = [compilations EXCEPT ![Current] = reported]
                /\ thrown' = NoException
         ELSE /\ compilations' =
                   [compilations EXCEPT ![Current] =
                      [reported EXCEPT
                         !.addedResources = @ \cup {module.resource},
                         !.modulesToEmit = Append(@, module),
                         !.warnings = @ \o e.warnings,
                         !.writes = @ \o e.writes]]
              /\ thrown' = NoException
  /\ UNCHANGED <<options, files, host, call>>

(* The rejection of one write: nothing waits for the promise.              *)
RejectLib(c, k, error) ==
  LET failed == [c EXCEPT !.writes[k].state = "rejected",
                          !.writes[k].error = error]
  IN  IF options.hasFileSystems
        THEN [failed EXCEPT !.errors = Append(@, error)]
        ELSE failed

MakeDirectoriesCallbackLib(p, k, ok) ==
  /\ p \in 1..Len(compilations)
  /\ k \in 1..Len(compilations[p].writes)
  /\ compilations[p].writes[k].state = "mkdir"
  /\ LET c == compilations[p]
         w == c.writes[k]
     IN  compilations' =
           [compilations EXCEPT ![p] =
              IF ok THEN [c EXCEPT !.writes[k].state = "writeFile"]
              ELSE RejectLib(c, k, IOError("mkdir", w.fs, w.dir))]
  /\ UNCHANGED <<options, files, thrown, host, call>>

WriteFileCallbackLib(p, k, ok) ==
  /\ p \in 1..Len(compilations)
  /\ k \in 1..Len(compilations[p].writes)
  /\ compilations[p].writes[k].state = "writeFile"
  /\ LET c == compilations[p]
         w == c.writes[k]
     IN  IF ok
           THEN /\ compilations' =
                     [compilations EXCEPT ![p].writes[k].state = "resolved"]
                /\ files' =
                     {f \in files : ~(f.fs = w.fs /\ f.path = w.filename)}
                       \cup {[fs |-> w.fs, path |-> w.filename,
                              content |-> w.content]}
           ELSE /\ compilations' =
                     [compilations EXCEPT ![p] =
                        RejectLib(c, k,
                                  IOError("writeFile", w.fs, w.filename))]
                /\ UNCHANGED files
  /\ UNCHANGED <<options, thrown, host, call>>

NextLib ==
  \/ Compilation
  \/ \E module \in Modules : SucceedModuleLib(module)
  \/ \E p \in 1..Len(compilations) :
       \E k \in 1..Len(compilations[p].writes), ok \in BOOLEAN :
         MakeDirectoriesCallbackLib(p, k, ok)
  \/ \E p \in 1..Len(compilations) :
       \E k \in 1..Len(compilations[p].writes), ok \in BOOLEAN :
         WriteFileCallbackLib(p, k, ok)

SpecLib == Init /\ [][NextLib]_vars

----------------------------------------------------------------------------
(* src/AssetModulePlugin.js, the first version of the plugin: apply        *)
(* registers one handler, of after-emit, with this.plugin(...).  The       *)
(* handler walks compilation.modules, and for each module to emit it       *)
(* creates the directory and writes the source of the module on the        *)
(* output file system, handing the completion callback of the event to     *)
(* every write.  reports holds here compilation.modules, modulesToEmit     *)
(* the modules the handler started a write for, in order.                  *)

(* What apply is called on: webpack's Tapable calls plugin.apply(compiler), *)
(* so that this is the plugin; apply.call(compiler, compiler) makes this   *)
(* the compiler.                                                           *)
Receivers == {"plugin", "compiler"}

(* this.plugin is not a function                                           *)
TypeError == [message |-> "this.plugin is not a function",
              pattern |-> Undefined]

(* The lists compilation.modules may be.                                   *)
ModuleLists ==
  UNION {[1..n -> Modules] : n \in 0..MaxReports}

InitFirst ==
  /\ options \in {o \in Configs : ~o.hasFileSystems}
  /\ compilations = <<>>
  /\ files = {[fs |-> OutputFileSystem, path |-> r, content |-> SourceContent] :
                r \in Resources}
  /\ thrown = NoException
  /\ host \in {[passes |-> 1, modules |-> Modules, receiver |-> r,
                applied |-> FALSE, registered |-> FALSE] : r \in Receivers}
  /\ call = NoCall

(* apply(compiler): this.plugin('after-emit', ...)                         *)
ApplyFirst ==
  /\ ~host.applied
  /\ IF host.receiver = "compiler"
       THEN /\ host' = [host EXCEPT !.applied = TRUE, !.registered = TRUE]
            /\ thrown' = NoException
       ELSE /\ host' = [host EXCEPT !.applied = TRUE]
            /\ thrown' = TypeError
  /\ UNCHANGED <<options, compilations, files, call>>

(* compilation.modules.forEach(module => ...): the emitted resources, the  *)
(* modules a write was started for, the writes, and the exception that     *)
(* ended the walk, if any.                                                 *)
RECURSIVE EmitAllFirst(_, _, _, _)
EmitAllFirst(opts, modules, i, acc) ==
  IF i > Len(modules) THEN acc
  ELSE
    LET module == modules[i]
        should == ShouldEmitFirstVersion(opts, module.resource)
        destinationPath == DestinationPath(opts, module.resource)
    IN  IF module.resource \in acc.emittedResources
          THEN EmitAllFirst(opts, modules, i + 1, acc)
        ELSE IF should.threw
          THEN [acc EXCEPT !.thrown = UnsupportedPattern(should.error)]
        ELSE IF ~should.value
          THEN EmitAllFirst(opts, modules, i + 1, acc)
        ELSE EmitAllFirst(opts, modules, i + 1,
               [acc EXCEPT
                  !.emittedResources = @ \cup {module.resource},
                  !.modulesToEmit = Append(@, module),
                  !.writes = Append(@,
                     WriteFile(Len(acc.modulesToEmit) + 1, 1,
                               OutputFileSystem, destinationPath,
                               ModuleSource(module)))])

(* The after-emit handler: (compilation, callback) => { ... }              *)
AfterEmitFirst(modules) ==
  /\ host.registered
  /\ Len(compilations) < host.passes
  /\ LET e == EmitAllFirst(options, modules, 1,
                           [emittedResources |-> {}, modulesToEmit |-> <<>>,
                            writes |-> <<>>, thrown |-> NoException])
     IN  /\ compilations' =
              Append(compilations,
                     [NewCompilationRecord EXCEPT
                        !.reports = modules,
                        !.addedResources = e.emittedResources,
                        !.modulesToEmit = e.modulesToEmit,
                        !.afterEmit = TRUE,
                        !.writes = e.writes])
         /\ thrown' = e.thrown
  /\ UNCHANGED <<options, files, host, call>>

(* The callback of outputFileSystem.mkdirp(path.dirname(...), ...)         *)
MkdirpCallbackFirst(p, k, ok) ==
  /\ p \in 1..Len(compilations)
  /\ k \in 1..Len(compilations[p].writes)
  /\ compilations[p].writes[k].state = "mkdir"
  /\ LET c == compilations[p]
         w == c.writes[k]
         error == IOError("mkdir", w.fs, w.dir)
     IN  compilations' =
           [compilations EXCEPT ![p] =
              IF ok THEN [c EXCEPT !.writes[k].state = "writeFile"]
              ELSE [c EXCEPT !.writes[k].state = "rejected",
                             !.writes[k].error = error,
                             !.callbacks = Append(@, [error |-> error])]]
  /\ UNCHANGED <<options, files, thrown, host, call>>

(* outputFileSystem.writeFile(destinationPath, ..., callback) calls back.  *)
WriteFileCallbackFirst(p, k, ok) ==
  /\ p \in 1..Len(compilations)
  /\ k \in 1..Len(compilations[p].writes)
  /\ compilations[p].writes[k].state = "writeFile"
  /\ LET c == compilations[p]
         w == c.writes[k]
         error == IOError("writeFile", w.fs, w.filename)
     IN  IF ok
           THEN /\ compilations' =
                     [compilations EXCEPT ![p] =
                        [c EXCEPT !.writes[k].state = "resolved",
                                  !.callbacks = Append(@, [error |-> NoError])]]
                /\ files' =
                     {f \in files : ~(f.fs = w.fs /\ f.path = w.filename)}
                       \cup {[fs |-> w.fs, path |-> w.filename,
                              content |-> w.content]}
           ELSE /\ compilations' =
                     [compilations EXCEPT ![p] =
                        [c EXCEPT !.writes[k].state = "rejected",
                                  !.writes[k].error = error,
                                  !.callbacks = Append(@, [error |-> error])]]
                /\ UNCHANGED files
  /\ UNCHANGED <<options, thrown, host, call>>

MkdirpCallsBackFirst ==
  \E p \in 1..Len(compilations) :
    \E k \in 1..Len(compilations[p].writes), ok \in BOOLEAN :
      MkdirpCallbackFirst(p, k, ok)

WriteFileCallsBackFirst ==
  \E p \in 1..Len(compilations) :
    \E k \in 1..Len(compilations[p].writes), ok \in BOOLEAN :
      WriteFileCallbackFirst(p, k, ok)

NextFirst ==
  \/ ApplyFirst
  \/ \E modules \in ModuleLists : AfterEmitFirst(modules)
  \/ MkdirpCallsBackFirst
  \/ WriteFileCallsBackFirst

(* The first version, with every operation of the output file system       *)
(* calling back in the end.                                                *)
SpecFirst ==
  /\ InitFirst
  /\ [][NextFirst]_vars
  /\ WF_vars(MkdirpCallsBackFirst)
  /\ WF_vars(WriteFileCallsBackFirst)

----------------------------------------------------------------------------
(* A build whose filter holds RegExp objects with the flag g.  The objects *)
(* live in this.options from construction on, so that the lastIndex one    *)
(* call of _shouldEmit leaves in them is the one the next call starts      *)
(* from; options.lastIndex holds it for test, include and exclude.         *)

NewLastIndex == [test |-> 0, include |-> 0, exclude |-> 0]

GlobalFilters ==
  { [test |-> Pat("regexp/g", StrA), include |-> Undefined,
     exclude |-> Undefined],
    [test |-> Undefined, include |-> Pat("regexp/g", StrS),
     exclude |-> Pat("regexp/g", <<"c">>)] }

GlobalConfigs ==
  {[sourceBase |-> StrS, destinationBase |-> StrB,
    test |-> f.test, include |-> f.include, exclude |-> f.exclude,
    fileSystems |-> <<>>, hasFileSystems |-> FALSE,
    lastIndex |-> NewLastIndex] : f \in GlobalFilters}

InitGlobal ==
  /\ options \in GlobalConfigs
  /\ compilations = <<>>
  /\ files = {[fs |-> OutputFileSystem, path |-> r, content |-> SourceContent] :
                r \in Resources}
  /\ thrown = NoException
  /\ host = [passes |-> 1, modules |-> Modules]
  /\ call = NoCall

(* compilation.plugin('succeed-module', ...), with the state of the        *)
(* pattern objects: _shouldEmit is only called for a resource that is not  *)
(* in addedResources.                                                      *)
SucceedModuleGlobal(module) ==
  /\ module \in host.modules
  /\ Len(compilations) > 0
  /\ ~compilations[Current].afterEmit
  /\ Len(compilations[Current].reports) < MaxReports
  /\ LET c == compilations[Current]
         reported == [c EXCEPT !.reports = Append(@, module)]
         should == ShouldEmitAt(options, module.resource, options.lastIndex)
     IN  IF AlreadyAdded(c, module)
           THEN /\ compilations' = [compilations EXCEPT ![Current] = reported]
                /\ thrown' = NoException
                /\ UNCHANGED options
         ELSE IF should.outcome.threw
           THEN /\ compilations' = [compilations EXCEPT ![Current] = reported]
                /\ thrown' = UnsupportedPattern(should.outcome.error)
                /\ options' = [options EXCEPT !.lastIndex = should.lastIndex]
         ELSE IF ~should.outcome.value
           THEN /\ compilations' = [compilations EXCEPT ![Current] = reported]
                /\ thrown' = NoException
                /\ options' = [options EXCEPT !.lastIndex = should.lastIndex]
         ELSE /\ compilations' =
                   [compilations EXCEPT ![Current] =
                      [reported EXCEPT
                         !.addedResources = @ \cup {module.resource},
                         !.modulesToEmit = Append(@, module)]]
              /\ thrown' = NoException
              /\ options' = [options EXCEPT !.lastIndex = should.lastIndex]
  /\ UNCHANGED <<files, host, call>>

NextGlobal ==
  \/ Compilation
  \/ \E module \in Modules : SucceedModuleGlobal(module)
  \/ \E p \in 1..Len(compilations) : AfterEmit(p)
  \/ \E p \in 1..Len(compilations) :
       \E k \in 1..Len(compilations[p].writes), ok \in BOOLEAN :
         MakeDirectoriesCallback(p, k, ok)
  \/ \E p \in 1..Len(compilations) :
       \E k \in 1..Len(compilations[p].writes), ok \in BOOLEAN :
         WriteFileCallback(p, k, ok)

SpecGlobal == InitGlobal /\ [][NextGlobal]_vars

----------------------------------------------------------------------------
(* A build whose sourceBase /s/x has a sibling directory /s/b named like   *)
(* the destinationBase /b, with an asset of the same name in both.         *)

ResInBase == <<"/", "s", "/", "x", "/", "a">>

ResSibling == <<"/", "s", "/", "b", "/", "a">>

SiblingModules == {Module(ResInBase, <<AssetOne>>), Module(ResSibling, <<>>)}

SiblingConfigs ==
  {[sourceBase |-> <<"/", "s", "/", "x">>, destinationBase |-> StrB,
    test |-> Undefined, include |-> Undefined, exclude |-> Undefined,
    fileSystems |-> <<>>, hasFileSystems |-> FALSE],
   [sourceBase |-> <<"/", "s", "/", "x">>, destinationBase |-> StrB,
    test |-> Undefined, include |-> Undefined, exclude |-> Undefined,
    fileSystems |-> <<DefaultFileSystem, MemoryFileSystem>>,
    hasFileSystems |-> TRUE]}

InitSibling ==
  /\ options \in SiblingConfigs
  /\ compilations = <<>>
  /\ files = {[fs |-> OutputFileSystem, path |-> r, content |-> SourceContent] :
                r \in {ResInBase, ResSibling}}
  /\ thrown = NoException
  /\ host = [passes |-> 1, modules |-> SiblingModules]
  /\ call = NoCall

NextSibling ==
  \/ Compilation
  \/ \E module \in SiblingModules : SucceedModule(module)
  \/ \E p \in 1..Len(compilations) : AfterEmit(p)
  \/ \E p \in 1..Len(compilations) :
       \E k \in 1..Len(compilations[p].writes), ok \in BOOLEAN :
         MakeDirectoriesCallback(p, k, ok)
  \/ \E p \in 1..Len(compilations) :
       \E k \in 1..Len(compilations[p].writes), ok \in BOOLEAN :
         WriteFileCallback(p, k, ok)

SpecSibling == InitSibling /\ [][NextSibling]_vars

----------------------------------------------------------------------------
(* What the specification says a pattern matches (section 4.1), used to    *)
(* state the claims about _matches and _shouldEmit.                        *)

RECURSIVE PatternMatches(_, _)
PatternMatches(p, path) ==
  CASE p.kind = "array" ->
         \E k \in 1..Len(p.items) : PatternMatches(p.items[k], path)
    [] p.kind = "regexp" -> RegExpTest(NewRegExp(p.str), path)
    [] p.kind = "string" -> IsPrefix(p.str, path)
    [] p.kind = "function" -> IsSuffix(p.str, path)
    [] OTHER -> FALSE

Configured(p) == p.kind # "undefined"

(* A pattern of a shape _matches evaluates, and not the empty string.      *)
Plain(p) ==
  \/ p.kind = "undefined"
  \/ p.kind \in {"regexp", "function"}
  \/ p.kind = "string" /\ p.str # <<>>

Rejected(opts, path) ==
  \/ Configured(opts.test) /\ ~PatternMatches(opts.test, path)
  \/ Configured(opts.include) /\ ~PatternMatches(opts.include, path)
  \/ Configured(opts.exclude) /\ PatternMatches(opts.exclude, path)

(* C1: every implementation of _shouldEmit returns false when test or      *)
(* include is configured and does not match, or exclude is configured and  *)
(* matches, and true in every other case.  Stated for string, regular-     *)
(* expression and function patterns.                                       *)
C1_ShouldEmitContract ==
  ( /\ call.fn = "_shouldEmit" /\ call.done
    /\ Plain(call.opts.test) /\ Plain(call.opts.include)
    /\ Plain(call.opts.exclude) )
  => call.result = Return(~Rejected(call.opts, call.string))

(* C2: a list pattern matches a path iff one of its sub-patterns does,     *)
(* and _matches raises no error for it.                                    *)
C2_ListIsOr ==
  (call.fn = "_matches" /\ call.done /\ call.pattern.kind = "array")
  => call.result = Return(PatternMatches(call.pattern, call.string))

(* C9: a string pattern matches a path exactly when the string is a        *)
(* prefix of the path, every character of it taken literally.              *)
C9_StringIsPrefix ==
  (call.fn = "_matches" /\ call.done /\ call.pattern.kind = "string")
  => call.result = Return(IsPrefix(call.pattern.str, call.string))

C9_Witness ==
  /\ call.fn = "_matches" /\ call.done
  /\ call.pattern = Pat("string", <<"a", ".">>)
  /\ call.string = <<"a", ".", "a">>
  /\ call.result = Return(TRUE)

(* The segments of the resolved bases and of the resource of the call.     *)
SourceSegs == Split(PathResolve(call.opts.sourceBase, <<>>))

DestinationSegs == Split(PathResolve(call.opts.destinationBase, <<>>))

ResourceSegs == Split(call.resource)

(* How many parent-directory segments lead from sourceBase to the          *)
(* resource, and the segments of the resource below the common directory.  *)
Climb == Len(SourceSegs) - CommonLen(SourceSegs, ResourceSegs)

Below ==
  SubSeq(ResourceSegs, CommonLen(SourceSegs, ResourceSegs) + 1,
         Len(ResourceSegs))

ClimbsAboveRoot(climb, dest) == climb > Len(dest)

LeadsBack(climb, dest, below) ==
  /\ climb > 0 /\ climb <= Len(dest) /\ below # <<>>
  /\ below[1] = dest[Len(dest) - climb + 1]

KeptSegs(climb, dest) ==
  SubSeq(dest, 1,
         IF ClimbsAboveRoot(climb, dest) THEN 0 ELSE Len(dest) - climb)

----------------------------------------------------------------------------
(* The claims about a build pass.                                          *)

Passes == 1..Len(compilations)

IsSettled(w) == w.state \in {"resolved", "rejected"}

WritesOfModule(c, m) == {k \in 1..Len(c.writes) : c.writes[k].module = m}

RejectedWrites(c) == {k \in 1..Len(c.writes) : c.writes[k].state = "rejected"}

WritesOfResource(c, r) ==
  {k \in 1..Len(c.writes) : c.modulesToEmit[c.writes[k].module].resource = r}

NoDuplicateResource(c) ==
  /\ \A i, j \in 1..Len(c.modulesToEmit) :
       c.modulesToEmit[i].resource = c.modulesToEmit[j].resource => i = j
  /\ c.addedResources =
       {c.modulesToEmit[i].resource : i \in 1..Len(c.modulesToEmit)}

Occurrences(seq, r) == Cardinality({i \in 1..Len(seq) : seq[i].resource = r})

Distinct(seq) == \A i, j \in 1..Len(seq) : seq[i] = seq[j] => i = j

(* C3, as claimed: a resource is scheduled at most once in a pass and the  *)
(* finalize phase issues at most one write per backend for it.             *)
C3_OneWritePerBackend ==
  \A p \in Passes :
    /\ NoDuplicateResource(compilations[p])
    /\ \A r \in Resources, fs \in FileSystems :
         Cardinality({k \in WritesOfResource(compilations[p], r) :
                        compilations[p].writes[k].fs = fs}) <= 1

(* C3, amended: a resource is scheduled at most once in a pass and the     *)
(* finalize phase issues at most one write for it per entry of the list    *)
(* of file systems, hence at most one per backend when the entries are     *)
(* pairwise distinct backends.                                             *)
C3_OneWritePerEntry ==
  \A p \in Passes :
    LET c == compilations[p]
        targets == TargetFileSystems(options)
    IN  /\ NoDuplicateResource(c)
        /\ \A r \in Resources :
             /\ \A k \in WritesOfResource(c, r) :
                  /\ c.writes[k].slot \in 1..Len(targets)
                  /\ c.writes[k].fs = targets[c.writes[k].slot]
             /\ \A slot \in 1..Len(targets) :
                  Cardinality({k \in WritesOfResource(c, r) :
                                 c.writes[k].slot = slot}) <= 1
             /\ Distinct(targets) =>
                  \A fs \in FileSystems :
                    Cardinality({k \in WritesOfResource(c, r) :
                                   c.writes[k].fs = fs}) <= 1

(* A resource reported by two module objects, scheduled once, written.     *)
C3_Witness ==
  \E p \in Passes :
    LET c == compilations[p]
    IN  /\ Occurrences(c.reports, ResA) >= 2
        /\ Occurrences(c.modulesToEmit, ResA) = 1
        /\ c.afterEmit
        /\ Cardinality(WritesOfResource(c, ResA)) = 2

(* C4: the completion callback of a pass is invoked only after every       *)
(* write of the pass has settled.                                          *)
C4_CallbackAfterAllSettled ==
  \A p \in Passes :
    compilations[p].callbacks # <<>>
      => \A k \in 1..Len(compilations[p].writes) :
           IsSettled(compilations[p].writes[k])

(* C5: every failed directory creation or file write is recorded in        *)
(* compilation.errors exactly once, with or without fileSystems.           *)
C5_EveryFailureRecorded ==
  \A p \in Passes :
    LET c == compilations[p]
    IN  /\ Len(c.errors) = Cardinality(RejectedWrites(c))
        /\ \A k \in RejectedWrites(c) :
             \E i \in 1..Len(c.errors) : c.errors[i] = c.writes[k].error

(* C6: the pass reports failure iff a write failed and success             *)
(* otherwise; with two file systems, one failing its directory creation    *)
(* and one succeeding, for the one module scheduled, one error is          *)
(* recorded, the succeeding file system holds the stub at the destination  *)
(* and the callback receives the error.                                    *)
OneFailsOneSucceeds(c) ==
  /\ options.hasFileSystems
  /\ Len(c.modulesToEmit) = 1 /\ Len(c.writes) = 2
  /\ \E k \in 1..2 :
       /\ c.writes[k].state = "rejected" /\ c.writes[k].error.op = "mkdir"
       /\ c.writes[3 - k].state = "resolved"

C6_FailureIffWriteFailed ==
  \A p \in Passes :
    LET c == compilations[p]
    IN  /\ Len(c.callbacks) <= 1
        /\ c.callbacks # <<>> =>
             /\ c.afterEmit
             /\ c.callbacks[1].error # NoError =>
                  \E k \in RejectedWrites(c) :
                    c.writes[k].error = c.callbacks[1].error
             /\ c.callbacks[1].error = NoError =>
                  \A k \in 1..Len(c.writes) : c.writes[k].state = "resolved"
        /\ (c.afterEmit /\ \A k \in 1..Len(c.writes) : IsSettled(c.writes[k]))
             => /\ c.callbacks # <<>>
                /\ c.callbacks[1].error # NoError <=> RejectedWrites(c) # {}
        /\ OneFailsOneSucceeds(c) =>
             /\ Len(c.errors) = 1
             /\ c.callbacks # <<>> /\ c.callbacks[1].error = c.errors[1]
             /\ \A k \in 1..2 :
                  c.writes[k].state = "resolved" =>
                    /\ [fs |-> c.writes[k].fs, path |-> c.writes[k].filename,
                        content |-> c.writes[k].content] \in files
                    /\ c.writes[k].filename
                         = DestinationPath(options, c.modulesToEmit[1].resource)
                    /\ c.writes[k].content
                         = GetAssetModuleSource(options,
                                                c.modulesToEmit[1]).source

C6_Witness ==
  \E p \in Passes :
    /\ OneFailsOneSucceeds(compilations[p])
    /\ compilations[p].writes[1].fs # compilations[p].writes[2].fs
    /\ compilations[p].callbacks # <<>>
    /\ compilations[p].callbacks[1].error.op = "mkdir"

(* C7: a scheduled module whose destination is its own resource path gets  *)
(* no directory creation and no file write on any file system and exactly  *)
(* one warning; it records no error and does not make the pass fail.       *)
(* The resources that a configuration maps onto themselves.                *)
SelfMapped ==
  [o \in Configs |-> {r \in Resources : DestinationPath(o, r) = r}]

SkippedModules(c) ==
  {m \in 1..Len(c.modulesToEmit) :
     c.modulesToEmit[m].resource \in SelfMapped[options]}

Unsupported(p) == p.kind \notin {"string", "regexp", "function", "array"}

(* The first pattern _shouldEmit evaluates that has no supported shape,    *)
(* or Undefined when it evaluates none.                                    *)
Offending(opts, path) ==
  IF Truthy(opts.test) /\ Unsupported(opts.test) THEN opts.test
  ELSE IF Truthy(opts.test) /\ ~PatternMatches(opts.test, path) THEN Undefined
  ELSE IF Truthy(opts.include) /\ Unsupported(opts.include) THEN opts.include
  ELSE IF Truthy(opts.include) /\ ~PatternMatches(opts.include, path)
    THEN Undefined
  ELSE IF Truthy(opts.exclude) /\ Unsupported(opts.exclude) THEN opts.exclude
  ELSE Undefined

C10_UnsupportedPatternThrows ==
  [][\A p \in Passes :
       LET c == compilations[p]
           d == compilations'[p]
           module == d.reports[Len(d.reports)]
           bad == Offending(options, module.resource)
       IN  Len(d.reports) = Len(c.reports) + 1 =>
             IF module.resource \notin c.addedResources /\ bad # Undefined
               THEN /\ thrown' = UnsupportedPattern(bad)
                    /\ d.addedResources = c.addedResources
                    /\ d.modulesToEmit = c.modulesToEmit
                    /\ d.writes = c.writes
                    /\ d.errors = c.errors /\ d.warnings = c.warnings
                    /\ files' = files
               ELSE thrown' = NoException]_vars

C10_Witness ==
  /\ thrown = UnsupportedPattern(Pat("number", <<"5">>))
  /\ \E p \in Passes :
       LET c == compilations[p]
       IN  /\ c.reports # <<>>
           /\ c.reports[Len(c.reports)].resource = ResA
           /\ c.addedResources = {} /\ c.modulesToEmit = <<>>
           /\ c.writes = <<>>

----------------------------------------------------------------------------
(* The claims about the stub and the file systems it is written to.        *)

Stub(assetFilename) == AssetModuleSource(PublicPath, assetFilename)

(* The modules to emit of a pass that _emitAssetModule does not skip.      *)
EmittedModules(c) == (1..Len(c.modulesToEmit)) \ SkippedModules(c)

AmbiguityWarnings(c, module) ==
  Cardinality({i \in 1..Len(c.warnings) :
                 c.warnings[i] = Warning("assets", module.resource)})

(* The asset file name the claim describes: the first one produced.        *)
FirstProduced(module) ==
  IF Len(module.assets) = 0
    THEN PathRelative(options.sourceBase, module.resource)
    ELSE module.assets[1]

(* C11: the stub of an emitted module names the module's path relative to  *)
(* sourceBase when the module has no asset file name, and otherwise the    *)
(* first asset file name in the order produced; a module with more than    *)
(* one gets exactly one ambiguity warning in the pass, whatever the number *)
(* of file systems, and a module with zero or one gets none.               *)
C11_FirstProducedAssetFilename ==
  \A p \in Passes :
    LET c == compilations[p]
    IN  c.afterEmit =>
          \A m \in EmittedModules(c) :
            /\ \A k \in WritesOfModule(c, m) :
                 c.writes[k].content = Stub(FirstProduced(c.modulesToEmit[m]))
            /\ AmbiguityWarnings(c, c.modulesToEmit[m])
                 = IF Len(c.modulesToEmit[m].assets) > 1 THEN 1 ELSE 0

(* C12: without fileSystems an emitted module is written to the output    *)
(* file system of the compiler only; with fileSystems it is written once   *)
(* for every entry of the list, on the output file system of the compiler  *)
(* where the entry is DefaultFileSystem and on the entry itself otherwise, *)
(* with one destination path and one content for all of them.              *)
Backend(entry) ==
  IF entry = DefaultFileSystem THEN OutputFileSystem ELSE entry

C12_WrittenToEveryFileSystem ==
  \A p \in Passes :
    LET c == compilations[p]
    IN  c.afterEmit =>
          \A m \in EmittedModules(c) :
            LET ws == WritesOfModule(c, m)
            IN  /\ ~options.hasFileSystems =>
                     /\ Cardinality(ws) = 1
                     /\ \A k \in ws : c.writes[k].fs = OutputFileSystem
                /\ options.hasFileSystems =>
                     /\ Cardinality(ws) = Len(options.fileSystems)
                     /\ \A e \in 1..Len(options.fileSystems) :
                          \E k \in ws :
                            /\ c.writes[k].slot = e
                            /\ c.writes[k].fs = Backend(options.fileSystems[e])
                /\ \A k, j \in ws :
                     /\ c.writes[k].filename = c.writes[j].filename
                     /\ c.writes[k].content = c.writes[j].content
                /\ \A k \in ws : c.writes[k].fs \in FileSystems

(* [DefaultFileSystem, a memory file system]: both hold the stub of /s/a   *)
(* at /b/a.                                                                *)
C12_Witness ==
  /\ options.hasFileSystems
  /\ options.fileSystems = <<DefaultFileSystem, MemoryFileSystem>>
  /\ \E p \in Passes :
       /\ compilations[p].modulesToEmit = <<Module(ResA, <<>>)>>
       /\ \A fs \in FileSystems :
            [fs |-> fs, path |-> <<"/", "b", "/", "a">>,
             content |-> Stub(<<"a">>)] \in files

(* JSON.parse of a string literal, which is also what evaluating it as a  *)
(* JavaScript string literal yields: the characters between the quotes,    *)
(* an escape standing for the character it names.  A quote or a line feed  *)
(* inside, or an unknown or unfinished escape, is a syntax error.          *)
ParseError == [ok |-> FALSE, value |-> <<>>]

RECURSIVE JsonUnescape(_, _)
JsonUnescape(s, acc) ==
  IF s = <<>> THEN [ok |-> TRUE, value |-> acc]
  ELSE IF Head(s) = "\\"
    THEN IF Len(s) < 2 THEN ParseError
         ELSE IF s[2] \in {"\"", "\\", "/"}
           THEN JsonUnescape(SubSeq(s, 3, Len(s)), Append(acc, s[2]))
         ELSE IF s[2] = "n"
           THEN JsonUnescape(SubSeq(s, 3, Len(s)), Append(acc, "\n"))
         ELSE ParseError
  ELSE IF Head(s) \in {"\"", "\n"} THEN ParseError
  ELSE JsonUnescape(Tail(s), Append(acc, Head(s)))

JsonParse(literal) ==
  IF Len(literal) < 2 \/ literal[1] # "\"" \/ literal[Len(literal)] # "\""
    THEN ParseError
    ELSE JsonUnescape(SubSeq(literal, 2, Len(literal) - 1), <<>>)

----------------------------------------------------------------------------
(* The claims about the order of the events of a pass.                     *)

InitialFiles ==
  {[fs |-> OutputFileSystem, path |-> r, content |-> SourceContent] :
     r \in Resources}

(* C14: before the after-emit event of a pass no directory creation and    *)
(* no file write has begun on any file system: the succeed-module events   *)
(* have only filled the set of added resources and the list of modules to  *)
(* emit.                                                                   *)
C14_NoWriteBeforeAfterEmit ==
  \A p \in Passes :
    ~compilations[p].afterEmit =>
      /\ compilations[p].writes = <<>>
      /\ p = 1 => files = InitialFiles

Pending(w) == w.state \in {"mkdir", "writeFile"}

ReportedFailure(c) == c.callbacks # <<>> /\ c.callbacks[1].error # NoError

(* What holds in every state: all writes of a pass are started by its      *)
(* after-emit event; a write that is pending after the pass has reported   *)
(* failure can still succeed and can still fail; a write that succeeded    *)
(* has its content at its destination, failure reported or not.            *)
NothingCancelled ==
  \A p \in Passes :
    LET c == compilations[p]
    IN  /\ c.afterEmit =>
             Len(c.writes)
               = Cardinality(EmittedModules(c)) * Len(TargetFileSystems(options))
        /\ \A k \in 1..Len(c.writes) :
             /\ c.writes[k].state = "resolved" =>
                  [fs |-> c.writes[k].fs, path |-> c.writes[k].filename,
                   content |-> c.writes[k].content] \in files
             /\ (ReportedFailure(c) /\ c.writes[k].state = "mkdir") =>
                  /\ ENABLED MakeDirectoriesCallback(p, k, TRUE)
                  /\ ENABLED MakeDirectoriesCallback(p, k, FALSE)
             /\ (ReportedFailure(c) /\ c.writes[k].state = "writeFile") =>
                  /\ ENABLED WriteFileCallback(p, k, TRUE)
                  /\ ENABLED WriteFileCallback(p, k, FALSE)

(* What holds of every step: the failure of one write leaves every other   *)
(* write and every file as they were.                                      *)
FailureLeavesTheRest ==
  \A p \in Passes :
    \A k \in 1..Len(compilations[p].writes) :
      (/\ Pending(compilations[p].writes[k])
       /\ Len(compilations'[p].writes) = Len(compilations[p].writes)
       /\ compilations'[p].writes[k].state = "rejected")
      => /\ files' = files
         /\ \A j \in 1..Len(compilations[p].writes) :
              j # k => compilations'[p].writes[j] = compilations[p].writes[j]

(* C15: the failure of one write cancels no other write of the pass:       *)
(* every scheduled write is started, stays as it was when another fails,   *)
(* can still run to its own success or failure afterwards, and a write     *)
(* that succeeded keeps its content at the destination after the pass has  *)
(* reported failure.                                                       *)
C15_FailureCancelsNothing ==
  []NothingCancelled /\ [][FailureLeavesTheRest]_vars

(* Failure reported for the first of two writes, the second succeeded.     *)
C15_Witness ==
  \E p \in Passes :
    LET c == compilations[p]
    IN  /\ Len(c.writes) = 2
        /\ c.writes[1].state = "rejected"
        /\ c.callbacks = <<[error |-> c.writes[1].error]>>
        /\ c.writes[2].state = "resolved"
        /\ [fs |-> c.writes[2].fs, path |-> c.writes[2].filename,
            content |-> c.writes[2].content] \in files

(* dir is the directory that holds the file: the file name is dir, a       *)
(* slash unless dir is the root, and one more segment.                     *)
IsParentDirectory(dir, filename) ==
  LET prefix == IF dir = <<"/">> THEN dir ELSE dir \o <<"/">>
  IN  /\ IsPrefix(prefix, filename)
      /\ Len(filename) > Len(prefix)
      /\ \A i \in (Len(prefix) + 1)..Len(filename) : filename[i] # "/"

(* What holds of every write in every state.                               *)
WriteIsSequential(w) ==
  /\ w.state \in {"mkdir", "writeFile", "resolved", "rejected"}
  /\ IsParentDirectory(w.dir, w.filename)
  /\ w.state = "rejected" <=> w.error # NoError
  /\ w.state = "rejected" =>
       \/ w.error = IOError("mkdir", w.fs, w.dir)
       \/ w.error = IOError("writeFile", w.fs, w.filename)

(* What holds of every step, for a write w that becomes v.                 *)
WriteStep(w, v) ==
  /\ w.state = "mkdir" =>
       /\ v.state \in {"mkdir", "writeFile", "rejected"}
       /\ v.state = "rejected" =>
            v.error.op = "mkdir" /\ files' = files
       /\ v.state = "writeFile" => files' = files
  /\ w.state = "writeFile" =>
       /\ v.state \in {"writeFile", "resolved", "rejected"}
       /\ v.state = "rejected" =>
            v.error.op = "writeFile" /\ files' = files
       /\ v.state = "resolved" =>
            [fs |-> w.fs, path |-> w.filename, content |-> w.content]
              \in files'
  /\ w.state \in {"resolved", "rejected"} => v = w

WritesAreSequential ==
  \A p \in Passes :
    /\ p \in 1..Len(compilations')
    /\ \A k \in 1..Len(compilations[p].writes) :
         /\ k \in 1..Len(compilations'[p].writes)
         /\ WriteStep(compilations[p].writes[k], compilations'[p].writes[k])
    /\ \A k \in 1..Len(compilations'[p].writes) :
         k > Len(compilations[p].writes) =>
           compilations'[p].writes[k].state = "mkdir"

(* C16: a write creates the parent directory of its destination first and  *)
(* calls writeFile only once that has succeeded; if the directory creation *)
(* fails, the write fails without writeFile being called; the write        *)
(* succeeds only if both operations succeed, and it settles once.          *)
C16_MkdirBeforeWriteFile ==
  /\ [](\A p \in Passes : \A k \in 1..Len(compilations[p].writes) :
          WriteIsSequential(compilations[p].writes[k]))
  /\ [][WritesAreSequential]_vars

(* Of three writes one failed to create its directory, one failed to       *)
(* write its file and one succeeded.                                       *)
C16_Witness ==
  \E p \in Passes :
    \E k, j, i \in 1..Len(compilations[p].writes) :
      /\ compilations[p].writes[k].state = "rejected"
      /\ compilations[p].writes[k].error.op = "mkdir"
      /\ compilations[p].writes[j].state = "rejected"
      /\ compilations[p].writes[j].error.op = "writeFile"
      /\ compilations[p].writes[i].state = "resolved"

(* C17: when an operation of a write of a pass never calls back, the       *)
(* completion callback of the pass is never invoked, however the other     *)
(* writes of the pass settle.                                              *)
C17_StalledPassNeverCompletes ==
  \A p \in Passes :
    (\E k \in 1..Len(compilations[p].writes) :
       Stalled(compilations[p].writes[k]))
    => compilations[p].callbacks = <<>>

(* C19: a pass whose after-emit event comes after no succeed-module event  *)
(* or only after events for modules that are not eligible starts no        *)
(* write, leaves every file system as it was, records no warning and no    *)
(* error, and its callback is invoked with success.                        *)
C19_NothingToEmit ==
  \A p \in Passes :
    LET c == compilations[p]
    IN  (c.afterEmit /\ c.modulesToEmit = <<>>)
        => /\ c.writes = <<>>
           /\ files = InitialFiles
           /\ c.warnings = <<>>
           /\ c.errors = <<>>
           /\ c.callbacks = <<[error |-> NoError]>>

(* After-emit after two events for /x/a, which exclude: '/x' rejects.      *)
C19_Witness ==
  \E p \in Passes :
    /\ options.exclude = Pat("string", StrX)
    /\ compilations[p].afterEmit
    /\ compilations[p].reports
         = <<Module(ResX, <<AssetOne>>), Module(ResX, <<AssetOne>>)>>
    /\ compilations[p].modulesToEmit = <<>>
    /\ compilations[p].callbacks = <<[error |-> NoError]>>

----------------------------------------------------------------------------
(* The claims about several passes (watch mode).                           *)

(* A step that starts a pass: the pass has an empty set, an empty list,    *)
(* no warning and no error, and the earlier passes are as they were.       *)
PassStartsEmpty ==
  Len(compilations') > Len(compilations) =>
    /\ Len(compilations') = Len(compilations) + 1
    /\ compilations'[Len(compilations')].addedResources = {}
    /\ compilations'[Len(compilations')].modulesToEmit = <<>>
    /\ compilations'[Len(compilations')].warnings = <<>>
    /\ compilations'[Len(compilations')].errors = <<>>
    /\ \A q \in Passes : compilations'[q] = compilations[q]

(* A step in which a module is reported to the current pass: an eligible   *)
(* module whose resource this pass has not added is scheduled, whatever    *)
(* the earlier passes have added.                                          *)
ScheduledAgain ==
  \A q \in Passes :
    (/\ q \in 1..Len(compilations')
     /\ Len(compilations'[q].reports) = Len(compilations[q].reports) + 1)
    => LET module == compilations'[q].reports[Len(compilations'[q].reports)]
       IN  (/\ module.resource \notin compilations[q].addedResources
            /\ ShouldEmit(options, module.resource) = Return(TRUE))
           => /\ compilations'[q].modulesToEmit
                   = Append(compilations[q].modulesToEmit, module)
              /\ compilations'[q].addedResources
                   = compilations[q].addedResources \cup {module.resource}

(* A step in which a write of a pass settles or moves on changes no other  *)
(* pass.                                                                   *)
LateWriteTouchesOwnPassOnly ==
  \A p \in Passes :
    (/\ compilations[p].afterEmit
     /\ p \in 1..Len(compilations')
     /\ compilations'[p].writes # compilations[p].writes)
    => /\ Len(compilations') = Len(compilations)
       /\ \A q \in Passes : q # p => compilations'[q] = compilations[q]

(* C18: every pass starts with an empty set of added resources and an      *)
(* empty list of modules to emit, so a resource emitted in one pass is     *)
(* scheduled again when it is reported in the next; a write of an earlier  *)
(* pass that settles during a later pass changes nothing of the later      *)
(* pass: not its set, its list, its warnings or its errors.                *)
C18_PassesAreIsolated ==
  [][PassStartsEmpty /\ ScheduledAgain /\ LateWriteTouchesOwnPassOnly]_vars

(* The second pass has scheduled /s/a again and has no error, the first    *)
(* pass has recorded the failures of both its writes, the second of which  *)
(* may fail while the second pass runs.                                    *)
C18_Witness ==
  /\ Len(compilations) = 2
  /\ compilations[1].modulesToEmit = <<Module(ResA, <<>>)>>
  /\ Len(compilations[1].errors) = 2
  /\ compilations[2].modulesToEmit = <<Module(ResA, <<>>)>>
  /\ compilations[2].addedResources = {ResA}
  /\ compilations[2].afterEmit
  /\ compilations[2].errors = <<>>
  /\ compilations[2].warnings = <<>>

----------------------------------------------------------------------------
(* C20: _shouldEmit is deterministic and free of side effects: two         *)
(* consecutive calls with one resource path and the same configuration     *)
(* objects (string, regular-expression or pure-function patterns) return   *)
(* the same result, and the first leaves no state behind that the second   *)
(* depends on.                                                             *)
C20_ShouldEmitDeterministic ==
  (call.fn = "_shouldEmit, twice")
  => /\ Len(call.results) = 2 => call.results[1] = call.results[2]
     /\ call.lastIndex = [test |-> 0, include |-> 0, exclude |-> 0]

----------------------------------------------------------------------------
(* The claims about the completion callback, the list of modules to emit   *)
(* and the destinations of a pass.                                         *)

(* The after-emit event of pass p has occurred.                            *)
Finalized(p) == Len(compilations) >= p /\ compilations[p].afterEmit

(* The completion callback of pass p has been invoked.                     *)
Invoked(p) == Len(compilations) >= p /\ compilations[p].callbacks # <<>>

AtMostOneCallback ==
  \A p \in 1..Len(compilations) : Len(compilations[p].callbacks) <= 1

PassesFilter(resource) ==
  LET should == ShouldEmitAt(options, resource, NewLastIndex).outcome
  IN  ~should.threw /\ should.value

(* The first module reported for the resource of reports[i].               *)
FirstReported(reports, i) ==
  reports[CHOOSE j \in 1..i :
            /\ reports[j].resource = reports[i].resource
            /\ \A h \in 1..(j - 1) :
                 reports[h].resource # reports[i].resource]

(* The modules the reports of a pass ask to emit: of every resource that   *)
(* passes the filter, the module reported first, in order of first report. *)
RECURSIVE ModulesToEmitOf(_, _)
ModulesToEmitOf(reports, i) ==
  IF i = 0 THEN <<>>
  ELSE IF /\ PassesFilter(reports[i].resource)
          /\ FirstReported(reports, i) = reports[i]
          /\ \A h \in 1..(i - 1) : reports[h].resource # reports[i].resource
    THEN Append(ModulesToEmitOf(reports, i - 1), reports[i])
  ELSE ModulesToEmitOf(reports, i - 1)

(* C22: in every pass the list of modules to emit holds, of every resource *)
(* that was reported and passes the filter, the module reported first for  *)
(* it, once, in order of first report, and the set of added resources      *)
(* holds the resources of the list and no resource that fails the filter.  *)
C22_ModulesToEmit ==
  \A p \in 1..Len(compilations) :
    LET c == compilations[p]
    IN  /\ c.modulesToEmit = ModulesToEmitOf(c.reports, Len(c.reports))
        /\ c.addedResources =
             {c.modulesToEmit[i].resource : i \in 1..Len(c.modulesToEmit)}
        /\ \A r \in c.addedResources : PassesFilter(r)

(* The file systems of fileSystems are pairwise distinct.                  *)
DistinctBackends ==
  \A i, j \in 1..Len(options.fileSystems) :
    i # j => options.fileSystems[i] # options.fileSystems[j]

(* C23: when the configured file systems are pairwise distinct, no two     *)
(* writes of one pass have the same file name on the same file system, and *)
(* the modules scheduled in one pass have pairwise distinct destination    *)
(* paths.                                                                  *)
C23_NoTwoWritesToOnePath ==
  DistinctBackends
  => \A p \in 1..Len(compilations) :
       LET c == compilations[p]
       IN  /\ \A j, k \in 1..Len(c.writes) :
                j # k => ~(/\ c.writes[j].fs = c.writes[k].fs
                           /\ c.writes[j].filename = c.writes[k].filename)
           /\ \A i, j \in 1..Len(c.modulesToEmit) :
                i # j => DestinationPath(options, c.modulesToEmit[i].resource)
                           # DestinationPath(options,
                                             c.modulesToEmit[j].resource)

EmptyString == Pat("string", <<>>)

(* The options with every empty-string predicate left out.                 *)
WithoutEmptyStrings(opts) ==
  [opts EXCEPT
     !.test = IF @ = EmptyString THEN Undefined ELSE @,
     !.include = IF @ = EmptyString THEN Undefined ELSE @,
     !.exclude = IF @ = EmptyString THEN Undefined ELSE @]

NotConfigured(p) == p \in {Undefined, EmptyString}

NonEmptyString(p) == p.kind = "string" /\ p.str # <<>>

(* C24: _shouldEmit treats a predicate that is the empty string as one     *)
(* that is not configured: it answers as it does without it, and with      *)
(* exclude "" and no other predicate it lets every path pass; a predicate   *)
(* that is a non-empty string is evaluated as a prefix of the path.        *)
C24_EmptyStringNotConfigured ==
  (/\ call.fn = "_shouldEmit" /\ call.done
   /\ call.impl = "src/src/AssetModulePlugin.js")
  => LET o == call.opts
     IN  /\ call.result = ShouldEmit(WithoutEmptyStrings(o), call.string)
         /\ (/\ o.exclude = EmptyString
             /\ NotConfigured(o.test) /\ NotConfigured(o.include))
            => call.result = Return(TRUE)
         /\ (/\ NonEmptyString(o.exclude)
             /\ NotConfigured(o.test) /\ NotConfigured(o.include))
            => call.result = Return(~IsPrefix(o.exclude.str, call.string))
         /\ (/\ NonEmptyString(o.test)
             /\ NotConfigured(o.include) /\ NotConfigured(o.exclude))
            => call.result = Return(IsPrefix(o.test.str, call.string))
         /\ (/\ NonEmptyString(o.include)
             /\ NotConfigured(o.test) /\ NotConfigured(o.exclude))
            => call.result = Return(IsPrefix(o.include.str, call.string))

(* exclude "" alone, and a path, of which "" is a prefix: it is emitted.   *)
C24_Witness ==
  /\ call.fn = "_shouldEmit" /\ call.done
  /\ call.impl = "src/src/AssetModulePlugin.js"
  /\ call.opts.exclude = EmptyString
  /\ call.opts.test = Undefined /\ call.opts.include = Undefined
  /\ call.string = <<"/", "a">>
  /\ IsPrefix(call.opts.exclude.str, call.string)
  /\ call.result = Return(TRUE)

====
